---- MODULE Spec2Model ----
(***************************************************************************)
(* Model of checkio_docker/parser.py: the mission files compiler.          *)
(*                                                                         *)
(* Text is modelled at two grains.  A schema line is a sequence of         *)
(* one-character strings, so that readline/split/strip act on characters.  *)
(* Every other file holds a sequence of tokens; the two placeholders       *)
(* '{{env}}' and '{{env_instructions}}' are tokens of their own.           *)
(*                                                                         *)
(* An optional value (Python's None) is a sequence of length 0 or 1.       *)
(***************************************************************************)
EXTENDS Integers, Sequences, FiniteSets, TLC

VARIABLES
    pc,                 \* position of the running call
    local,              \* the caller's local mission directory (a tree)
    remote,             \* url -> repository reachable by git
    wd,                 \* the working directory (dst_path / working_path)
    wd0,                \* the working directory as it was when compile was called
    tmp,                \* the directories made by tempfile.mkdtemp, by number
    args,               \* the arguments of MissionFilesCompiler.compile
    source_path,        \* compile_from_files' source_path: a path
    git_source_path,    \* compile_from_git's source_path (None or a tmp number)
    repository,         \* download_base_repositories' loop variable
    base_repositories,  \* download_base_repositories' list of snapshot numbers
    active_envs,        \* the list get_active_envs returned
    position,           \* compile_from_files' index in its loop over snapshots
    log,                \* the warnings logged so far
    steps,              \* the steps of the call completed so far, in order
    result              \* how the call ended: returned value or raised exception

vars == <<pc, local, remote, wd, wd0, tmp, args, source_path, git_source_path,
          repository, base_repositories, position, active_envs, log, steps, result>>

-----------------------------------------------------------------------------
(* Bounds of the model *)

\* longest schema file content enumerated for the parser
MaxLen == 5

\* most temporary directories one behaviour may create
MaxTmp == 4

-----------------------------------------------------------------------------
(* Strings as sequences of characters *)

None == <<>>

Some(x) == <<x>>

\* how a call ends: a returned value or a raised exception
Return(v) == [raised |-> "", value |-> v]

Raise(e) == [raised |-> e, value |-> None]

Chars == {"u", ";", "@", ":", " ", "\n"}

Whitespace == {" ", "\n", "\t", "\r"}

Strings(n) == UNION {[1..k -> Chars] : k \in 0..n}

\* position of the first c in s, 0 when there is none
RECURSIVE IndexFrom(_, _, _)
IndexFrom(s, c, i) ==
    IF i > Len(s) THEN 0
    ELSE IF s[i] = c THEN i
    ELSE IndexFrom(s, c, i + 1)

IndexOf(s, c) == IndexFrom(s, c, 1)

Contains(s, c) == IndexOf(s, c) # 0

\* file.read(): the whole text
read(s) == s

\* file.readline(): the text up to and including the first newline
readline(s) ==
    IF Contains(s, "\n") THEN SubSeq(s, 1, IndexOf(s, "\n")) ELSE s

\* str.split(c, 1): one part when c does not occur, else the text before
\* and the text after the first c
split1(s, c) ==
    IF Contains(s, c)
    THEN <<SubSeq(s, 1, IndexOf(s, c) - 1), SubSeq(s, IndexOf(s, c) + 1, Len(s))>>
    ELSE <<s>>

RECURSIVE lstrip(_)
lstrip(s) ==
    IF s # <<>> /\ Head(s) \in Whitespace THEN lstrip(Tail(s)) ELSE s

RECURSIVE rstrip(_)
rstrip(s) ==
    IF s # <<>> /\ s[Len(s)] \in Whitespace THEN rstrip(SubSeq(s, 1, Len(s) - 1)) ELSE s

\* str.strip()
strip(s) == rstrip(lstrip(s))

-----------------------------------------------------------------------------
(* Trees: a node is a plain file, a directory or a symbolic link *)

NoEntries == [n \in {} |-> 0]

File(c) == [kind |-> "file", content |-> c, entries |-> NoEntries, target |-> <<>>]

Dir(e) == [kind |-> "dir", content |-> <<>>, entries |-> e, target |-> <<>>]

\* a symbolic link to the path p (a sequence of names, the root first)
Link(p) == [kind |-> "link", content |-> <<>>, entries |-> NoEntries, target |-> p]

EmptyDir == Dir(NoEntries)

\* os.listdir as a set
Names(d) == DOMAIN d.entries

Has(d, n) == d.kind = "dir" /\ n \in Names(d)

\* the directory d with entry n set to node x
Put(d, n, x) == Dir((n :> x) @@ d.entries)

\* the directory d without entry n
Remove(d, n) == Dir([m \in Names(d) \ {n} |-> d.entries[m]])

-----------------------------------------------------------------------------
(* Paths and lookup.  A path is a sequence of names whose first name is    *)
(* its root: the caller's mission directory, the destination, or one of    *)
(* the temporary directories.                                              *)

Absent == [kind |-> "absent", content |-> <<>>, entries |-> NoEntries, target |-> <<>>]

LocalPath == <<"mission">>

TmpPath(n) == <<"tmp", ToString(n)>>

\* the node reached from node d by the names of p, Absent when there is none
RECURSIVE Walk(_, _)
Walk(d, p) ==
    IF p = <<>> THEN d
    ELSE IF Has(d, Head(p)) THEN Walk(d.entries[Head(p)], Tail(p))
    ELSE Absent

\* the node a path names, as the file system holds it now
Lookup(p) ==
    IF p = <<>> THEN Absent
    ELSE IF Head(p) = "mission" THEN Walk(local, Tail(p))
    ELSE IF Head(p) = "dst" THEN Walk(wd, Tail(p))
    ELSE IF Head(p) = "tmp" /\ Len(p) >= 2
            /\ \E n \in DOMAIN tmp : ToString(n) = p[2]
    THEN Walk(tmp[CHOOSE n \in DOMAIN tmp : ToString(n) = p[2]], SubSeq(p, 3, Len(p)))
    ELSE Absent

\* a node with its symbolic link followed (sources hold no links, so one step)
Deref(x) == IF x.kind = "link" THEN Lookup(x.target) ELSE x

\* os.path.exists, os.path.isfile, os.path.isdir: all follow symbolic links
exists(x) == Deref(x).kind \in {"file", "dir"}

isfile(x) == Deref(x).kind = "file"

isdir(x) == Deref(x).kind = "dir"

Entry(d, n) == IF Has(d, n) THEN d.entries[n] ELSE Absent

-----------------------------------------------------------------------------
(* Copy overlay: utils.recursive_overwrite, which is not among the sources *)
(* at hand.  It copies every file and directory of src into dest and       *)
(* overwrites the files dest already has; a file met where the other side  *)
(* has a directory is the fatal structural conflict.                       *)

Outcome(t, w, e) == [tree |-> t, warned |-> w, error |-> e]

\* does copying s onto d meet a file/directory mismatch
RECURSIVE CopyConflict(_, _)
CopyConflict(s, d) ==
    IF d.kind = "absent" THEN FALSE
    ELSE IF s.kind = "dir"
    THEN d.kind # "dir" \/ \E n \in Names(s) : CopyConflict(s.entries[n], Entry(d, n))
    ELSE d.kind = "dir"

\* the result of a copy that meets no conflict
RECURSIVE CopyTree(_, _)
CopyTree(s, d) ==
    IF s.kind # "dir" THEN File(s.content)
    ELSE Dir([n \in Names(s) \cup Names(d) |->
                IF n \in Names(s) THEN CopyTree(s.entries[n], Entry(d, n))
                ELSE d.entries[n]])

\* the states a copy can leave behind when it stops at a conflict: the
\* listing order is arbitrary, so any of the other entries may be done
RECURSIVE CopyPartial(_, _)
CopyPartial(s, d) ==
    IF s.kind # "dir" \/ d.kind # "dir" THEN {d}
    ELSE LET bad == {n \in Names(s) : CopyConflict(s.entries[n], Entry(d, n))}
             good == Names(s) \ bad
         IN  UNION {UNION {{Dir([n \in Names(d) \cup done |->
                                  IF n = f THEN r
                                  ELSE IF n \in done
                                  THEN CopyTree(s.entries[n], Entry(d, n))
                                  ELSE d.entries[n]])
                            : r \in CopyPartial(s.entries[f], d.entries[f])}
                           : done \in SUBSET good}
                    : f \in bad}

recursive_overwrite(src, dest) ==
    IF CopyConflict(src, dest)
    THEN {Outcome(t, {}, "StructuralConflict") : t \in CopyPartial(src, dest)}
    ELSE {Outcome(CopyTree(src, dest), {}, "")}

-----------------------------------------------------------------------------
(* Link overlay: get_folder_config and relink_tree *)

\* yaml.load of a '.folder' file: None for an empty document, else the
\* mapping; the file's first token is its key, the rest the listed names
NoConfig == [none |-> FALSE, keys |-> {}, replace |-> {}]

yaml_load(c) ==
    IF c = <<>> THEN [none |-> TRUE, keys |-> {}, replace |-> {}]
    ELSE [none |-> FALSE, keys |-> {Head(c)},
          replace |-> IF Head(c) = "replace" THEN {c[i] : i \in 2..Len(c)} ELSE {}]

get_folder_config(folder) ==
    IF isfile(Entry(folder, ".folder"))
    THEN yaml_load(Deref(Entry(folder, ".folder")).content)
    ELSE NoConfig

\* line 36: does replacing the plain file 'name' call for the warning
Unexpected(name, config) ==
    name # ".folder" /\ ("replace" \notin config.keys \/ name \notin config.replace)

\* the assertion of line 34 left out
assert_disabled(d, s) == TRUE

\* line 34: assert os.path.isfile(dst_name) == os.path.isfile(src_name)
assert_same_kind(d, s) == isfile(d) = isfile(s)

\* relink_tree(src, dst): sp and dp are the two paths, src and dst the nodes
\* there now.  The set of outcomes is a single one unless the call fails,
\* when the entries listed before the failing one are done and the rest not.
RECURSIVE relink_tree(_, _, _, _)
relink_tree(sp, src, dp, dst0) ==
    LET dst == IF ~exists(dst0) THEN EmptyDir ELSE dst0
        config == get_folder_config(dst)
        names == Names(src) \ {".git", ".gitignore"}
        One(n) ==
            LET s == src.entries[n]
                d == Entry(dst, n)
                plain == exists(d) /\ isfile(d)
                w == IF plain /\ Unexpected(n, config) THEN {dp \o <<n>>} ELSE {}
                d1 == IF plain THEN Absent ELSE d
            IN  IF exists(d) /\ ~assert_same_kind(d, s)
                THEN {Outcome(d, {}, "AssertionError")}
                ELSE IF plain /\ n # ".folder" /\ config.none
                THEN {Outcome(d, {}, "TypeError")}
                ELSE IF isdir(s)
                THEN {Outcome(r.tree, w \cup r.warned, r.error)
                        : r \in relink_tree(sp \o <<n>>, s, dp \o <<n>>, d1)}
                ELSE IF d1.kind # "absent"
                THEN {Outcome(d1, w, "FileExistsError")}
                ELSE {Outcome(Link(sp \o <<n>>), w, "")}
        good == {n \in names : \A o \in One(n) : o.error = ""}
        bad == names \ good
        Merge(done, f, o) ==
            Outcome(Dir([n \in Names(dst) \cup done \cup f |->
                            IF n \in f THEN o.tree
                            ELSE IF n \in done THEN (CHOOSE r \in One(n) : TRUE).tree
                            ELSE dst.entries[n]]),
                    o.warned \cup UNION {(CHOOSE r \in One(n) : TRUE).warned : n \in done},
                    o.error)
    IN  IF dst.kind # "dir"
        THEN {Outcome(dst, {}, "NotADirectoryError")}
        ELSE IF bad = {}
        THEN {Merge(names, {}, Outcome(Absent, {}, ""))}
        ELSE UNION {UNION {{Merge(done, {f}, o) : o \in One(f)}
                           : done \in SUBSET good}
                    : f \in bad}

-----------------------------------------------------------------------------
(* Token text: str.replace and str.join *)

ENV == "{{env}}"

ENV_INSTRUCTIONS == "{{env_instructions}}"

\* text.replace(placeholder, by): every occurrence is replaced
RECURSIVE replace(_, _, _)
replace(text, placeholder, by) ==
    IF text = <<>> THEN <<>>
    ELSE (IF Head(text) = placeholder THEN by ELSE <<Head(text)>>)
         \o replace(Tail(text), placeholder, by)

\* the parts one after the other with nothing between them
RECURSIVE join_concatenated(_)
join_concatenated(parts) ==
    IF parts = <<>> THEN <<>> ELSE Head(parts) \o join_concatenated(Tail(parts))

\* "\n".join(parts)
RECURSIVE join(_)
join(parts) ==
    IF parts = <<>> THEN <<>>
    ELSE IF Len(parts) = 1 THEN parts[1]
    ELSE parts[1] \o <<"\n">> \o join(Tail(parts))

\* the orders os.listdir may give the names of S in
Listings(S) ==
    {s \in [1..Cardinality(S) -> S] : \A i, j \in 1..Cardinality(S) : i # j => s[i] # s[j]}

Range(s) == {s[i] : i \in 1..Len(s)}

RECURSIVE Reverse(_)
Reverse(s) == IF s = <<>> THEN <<>> ELSE Reverse(Tail(s)) \o <<Head(s)>>

\* the tree d with the node at path p (below d) set to x; the parents exist
RECURSIVE SetAt(_, _, _)
SetAt(d, p, x) ==
    IF p = <<>> THEN x
    ELSE Put(d, Head(p), SetAt(Entry(d, Head(p)), Tail(p), x))

-----------------------------------------------------------------------------
(* The paths of _MissionFilesCompiler.__init__ and MissionFilesCompiler    *)

dst_path == <<"dst">>

DIR_VERIFICATION == "verification"

DIR_VERIFICATION_ENVS == "envs"

DIR_INITIAL_CODES == "initial"

DOCKER_MAIN_FILENAME == "Dockertemplate"

DOCKER_ENV_FILENAME == "Dockerenv"

path_verification == dst_path \o <<DIR_VERIFICATION>>

path_envs == path_verification \o <<DIR_VERIFICATION_ENVS>>

path_initial == dst_path \o <<DIR_INITIAL_CODES>>

-----------------------------------------------------------------------------
(* git: the repositories and git_pull *)

\* what git clone leaves in the destination: the tree and its .git directory
Clone(url, tree) == Put(tree, ".git", Dir("HEAD" :> File(url)))

\* the world: can the repository be cloned, and has it the branch asked for
Reachable(repo) == repo.url \in DOMAIN remote

HasBranch(repo) ==
    repo.branch = None \/ repo.branch[1] \in DOMAIN remote[repo.url].branches

\* the world: the tree of the repository at the branch asked for
Snapshot(repo) ==
    IF repo.branch = None
    THEN Clone(repo.url, remote[repo.url].head)
    ELSE Clone(repo.url, remote[repo.url].branches[repo.branch[1]])

\* git_pull with every git error swallowed instead of raised
git_pull_silent(repo) ==
    IF ~Reachable(repo)
    THEN Outcome(EmptyDir, {}, "")
    ELSE IF HasBranch(repo)
    THEN Outcome(Snapshot(repo), {}, "")
    ELSE Outcome(Clone(repo.url, remote[repo.url].head), {}, "")

\* git_pull(repository, destination_path): what it leaves in the temporary
\* directory and the exception it raises.  A failed clone leaves the
\* directory empty, a failed checkout leaves the cloned default branch.
git_pull(repo) ==
    IF ~Reachable(repo)
    THEN Outcome(EmptyDir, {}, "Exception: GitCommandError")
    ELSE IF HasBranch(repo)
    THEN Outcome(Snapshot(repo), {}, "")
    ELSE Outcome(Clone(repo.url, remote[repo.url].head), {}, "GitCommandError")

-----------------------------------------------------------------------------
(* get_active_envs, filter_envs, make_dockerfile *)

\* get_active_envs: os.listdir(path_initial), in any order
get_active_envs(w) ==
    IF isdir(Walk(w, <<DIR_INITIAL_CODES>>))
    THEN {Return(l) : l \in Listings(Names(Deref(Walk(w, <<DIR_INITIAL_CODES>>))))}
    ELSE {Raise("OSError")}

\* filter_envs removing nothing
filter_nothing(w, active) ==
    IF ~isdir(Walk(w, <<DIR_VERIFICATION, DIR_VERIFICATION_ENVS>>))
    THEN {Outcome(w, {}, "OSError")}
    ELSE {Outcome(w, {}, "")}

\* filter_envs stopping after the first directory it removes
filter_one(w, active) ==
    LET envs == Walk(w, <<DIR_VERIFICATION, DIR_VERIFICATION_ENVS>>)
        doomed == Names(envs) \ Range(active)
    IN  IF ~isdir(envs)
        THEN {Outcome(w, {}, "OSError")}
        ELSE IF doomed = {}
        THEN {Outcome(w, {}, "")}
        ELSE {Outcome(SetAt(w, <<DIR_VERIFICATION, DIR_VERIFICATION_ENVS>>,
                            Dir([env \in Names(envs) \ {gone} |-> envs.entries[env]])),
                      {}, "") : gone \in doomed}

\* filter_envs: the working directory after it, and the error it ends with.
\* os.listdir fails when there is no envs directory; shutil.rmtree fails on
\* an entry that is no directory, after any of the others were removed.
filter_envs(w, active) ==
    LET envs == Walk(w, <<DIR_VERIFICATION, DIR_VERIFICATION_ENVS>>)
        doomed == Names(envs) \ Range(active)
        stuck == {env \in doomed : envs.entries[env].kind # "dir"}
        Without(gone) ==
            SetAt(w, <<DIR_VERIFICATION, DIR_VERIFICATION_ENVS>>,
                  Dir([env \in Names(envs) \ gone |-> envs.entries[env]]))
    IN  IF ~isdir(envs)
        THEN {Outcome(w, {}, "OSError")}
        ELSE IF stuck = {}
        THEN {Outcome(Without(doomed), {}, "")}
        ELSE {Outcome(Without(gone), {}, "OSError") : gone \in SUBSET (doomed \ stuck)}

\* _get_file_content of the path p below the working directory w
HasContent(w, p) == isfile(Walk(w, p))

_get_file_content(w, p) == Deref(Walk(w, p)).content

DockerEnvFile(env) ==
    <<DIR_VERIFICATION, DIR_VERIFICATION_ENVS, env, DOCKER_ENV_FILENAME>>

\* lines 177-181: the fragments of the environments, in the list's order
RECURSIVE envs_docker(_, _)
envs_docker(w, active) ==
    IF active = <<>> THEN <<>>
    ELSE <<replace(_get_file_content(w, DockerEnvFile(Head(active))), ENV, <<Head(active)>>)>>
         \o envs_docker(w, Tail(active))

\* lines 183-186: the text written to the Dockerfile
docker_main(w, active) ==
    replace(_get_file_content(w, <<DIR_VERIFICATION, DOCKER_MAIN_FILENAME>>),
            ENV_INSTRUCTIONS, join(envs_docker(w, active)))

DockerfilePath == <<DIR_VERIFICATION, "Dockerfile">>

\* make_dockerfile passing over the environments that have no Dockerenv
make_dockerfile_skips_missing(w, active) ==
    IF ~HasContent(w, <<DIR_VERIFICATION, DOCKER_MAIN_FILENAME>>)
    THEN "IOError"
    ELSE IF isdir(Walk(w, DockerfilePath))
    THEN "IOError"
    ELSE ""

\* make_dockerfile taking a missing root template for an empty one
make_dockerfile_template_optional(w, active) ==
    IF \E i \in 1..Len(active) : ~HasContent(w, DockerEnvFile(active[i]))
    THEN "IOError"
    ELSE IF isdir(Walk(w, DockerfilePath))
    THEN "IOError"
    ELSE ""

\* the error make_dockerfile ends with, "" when it writes the Dockerfile
make_dockerfile_error(w, active) ==
    IF \E i \in 1..Len(active) : ~HasContent(w, DockerEnvFile(active[i]))
    THEN "IOError"
    ELSE IF ~HasContent(w, <<DIR_VERIFICATION, DOCKER_MAIN_FILENAME>>)
    THEN "IOError"
    ELSE IF isdir(Walk(w, DockerfilePath))
    THEN "IOError"
    ELSE ""

-----------------------------------------------------------------------------
(* The schema record: get_base_repository *)

SCHEMA_FILENAME == "schema"

\* the split without the test for ':' of line 143
ParseUrlNoColonTest(text) ==
    LET url == strip(text)
        repository_parts == split1(url, "@")
    IN  IF Contains(url, "@")
        THEN [url |-> strip(repository_parts[1]), branch |-> Some(strip(repository_parts[2]))]
        ELSE [url |-> url, branch |-> None]

\* the url/branch split of get_base_repository, lines 139-150
ParseUrl(text) ==
    LET url == strip(text)
        repository_parts == split1(url, "@")
    IN  IF Contains(url, "@") /\ ~Contains(repository_parts[2], ":")
        THEN [url |-> strip(repository_parts[1]), branch |-> Some(strip(repository_parts[2]))]
        ELSE [url |-> url, branch |-> None]

\* get_base_repository on the directory tree src
get_base_repository(src) ==
    IF ~Has(src, SCHEMA_FILENAME)
    THEN Return(None)
    ELSE LET content == readline(src.entries[SCHEMA_FILENAME].content)
             parts == split1(content, ";")
         IN  IF content = <<>>
             THEN Raise("MissionFilesException: Schema file is empty")
             ELSE IF Len(parts) # 2
             THEN Raise("MissionFilesException: Schema content is wrong")
             ELSE Return(Some(ParseUrl(parts[2])))

-----------------------------------------------------------------------------
(* The missions and repositories the compiler is run on *)

URL_A == <<"a">>

URL_B == <<"b">>

URL_L == <<"l">>

URL_Z == <<"z">>

EnvNames == {"py3", "js"}

Fragment(tag) == File(<<"RUN", tag, ENV, "&&", ENV>>)

EnvsDir(tag, envs) == Dir([e \in envs |-> Dir(DOCKER_ENV_FILENAME :> Fragment(tag))])

InitialDir(tag, envs) == Dir([e \in envs |-> Dir("code" :> File(<<tag>>))])

Template(tag) == File(<<"FROM", tag, ENV_INSTRUCTIONS>>)

\* the mission directories: self-contained; thin (inherits its verification);
\* more initial codes than environments and a template that holds its
\* placeholder twice; no root template and a 'data' directory; no initial codes
MissionBodies ==
    { Dir("initial" :> InitialDir("L", {"py3"})
          @@ "verification" :> Dir("envs" :> EnvsDir("L", {"py3", "js"})
                                   @@ DOCKER_MAIN_FILENAME :> Template("L"))
          @@ "run.py" :> File(<<"L">>)
          @@ ".git" :> Dir("HEAD" :> File(URL_L))),
      Dir("initial" :> InitialDir("L", {"py3"})
          @@ "run.py" :> File(<<"L">>)
          @@ ".folder" :> File(<<"other", "x">>)),
      Dir("initial" :> InitialDir("L", {"py3", "js"})
          @@ "verification" :> Dir("envs" :> EnvsDir("L", {"py3"})
                                   @@ DOCKER_MAIN_FILENAME :>
                                        File(<<ENV_INSTRUCTIONS, "CMD", ENV_INSTRUCTIONS>>)
                                   @@ "Dockerfile" :> File(<<"stale", "L">>))),
      Dir("initial" :> InitialDir("L", {"py3"})
          @@ "verification" :> Dir("envs" :> EnvsDir("L", {"py3"}))
          @@ "data" :> Dir("x" :> File(<<"L">>))),
      Dir("run.py" :> File(<<"L">>)) }

\* the schema files of a mission: none, empty, the repository a, its
\* branch m, a branch it does not have
MissionSchemas ==
    { None,
      Some(<<>>),
      Some(<<"p", ";", "a", "\n">>),
      Some(<<"p", ";", " ", "a", "@", "m", "\n">>),
      Some(<<"p", ";", "a", "@", "x">>) }

WithSchema(tree, schema) ==
    IF schema = None THEN tree ELSE Put(tree, SCHEMA_FILENAME, File(schema[1]))

\* the template repository a, and what its branch m changes
RepositoryA(tag) ==
    Dir("verification" :> Dir("envs" :> EnvsDir(tag, {"py3", "js"})
                              @@ DOCKER_MAIN_FILENAME :> Template(tag))
        @@ "run.py" :> File(<<tag>>)
        @@ "data" :> File(<<tag>>)
        @@ ".folder" :> File(<<"replace", "run.py">>))

\* the schema files of a: none, the repository b, no separator, a itself,
\* an unreachable repository
SchemasA ==
    { None,
      Some(<<"p", ";", "b">>),
      Some(<<"u", "\n">>),
      Some(<<"p", ";", "a", "\n">>),
      Some(<<"p", ";", "z", "\n">>) }

\* the base repository b: as it should be, or with 'data' a directory
RepositoriesB ==
    { Dir("verification" :> Dir("envs" :> EnvsDir("b", {"js"})
                                @@ DOCKER_MAIN_FILENAME
                                   :> File(<<ENV_INSTRUCTIONS, "CMD", ENV_INSTRUCTIONS>>))
          @@ "run.py" :> File(<<"b">>)
          @@ "base.py" :> File(<<"b">>)),
      Dir("run.py" :> File(<<"b">>)
          @@ "data" :> Dir("y" :> File(<<"b">>))) }

Repo(head, branches) == [head |-> head, branches |-> branches]

NoBranches == [n \in {} |-> EmptyDir]

\* the working directories the compiler is pointed at: fresh, or used before
WorkingDirs ==
    { EmptyDir,
      Dir("old.py" :> File(<<"old">>)
          @@ "verification" :> Dir("envs" :> EnvsDir("old", {"js"})
                                   @@ "Dockerfile" :> File(<<"stale", "old">>))),
      Dir("run.py" :> File(<<"old">>) @@ ".folder" :> File(<<>>)),
      Dir("run.py" :> Dir("x" :> File(<<"old">>))) }

\* the arguments compile is called with
SourcePaths == {None, Some(LocalPath)}

Repositories ==
    {None, Some([url |-> URL_L, branch |-> None]), Some([url |-> URL_Z, branch |-> None])}

-----------------------------------------------------------------------------
(* The compiler as a state machine *)

NoArgs == [source_path |-> None, repository |-> None, use_link |-> FALSE]

Init ==
    \E body \in MissionBodies, ms \in MissionSchemas, sa \in SchemasA,
       b \in RepositoriesB \cup {Absent}, w \in WorkingDirs :
        /\ local = WithSchema(body, ms)
        /\ remote = [u \in {URL_A, URL_L} \cup (IF b = Absent THEN {} ELSE {URL_B}) |->
                        IF u = URL_A
                        THEN Repo(WithSchema(RepositoryA("a"), sa),
                                  (<<"m">> :> WithSchema(RepositoryA("am"), sa)))
                        ELSE IF u = URL_L
                        THEN Repo(Remove(WithSchema(body, ms), ".git"), NoBranches)
                        ELSE Repo(b, NoBranches)]
        /\ wd = w
        /\ wd0 = w
        /\ pc = "idle"
        /\ tmp = <<>>
        /\ args = NoArgs
        /\ source_path = <<>>
        /\ git_source_path = None
        /\ repository = None
        /\ base_repositories = <<>>
        /\ position = 0
        /\ active_envs = <<>>
        /\ log = {}
        /\ steps = <<>>
        /\ result = Return(None)

in_git_mode == args.repository # None

\* the caller's use_link handed on in repository mode too
passes_use_link == args.use_link

\* line 117 and line 66: the use_link compile_from_files is called with
files_use_link == IF in_git_mode THEN FALSE ELSE args.use_link

\* an exception leaves compile_from_files: through compile_from_git's finally
\* clause when that is the caller, else out of compile
Fail(e) ==
    /\ result' = Raise(e)
    /\ pc' = IF in_git_mode THEN "finally" ELSE "done"

Step(name) == steps' = Append(steps, name)

\* compile taking the local directory when both arguments are given
compile_mode_prefers_source(sp, repo) ==
    IF ~(repo # None \/ sp # None) THEN ""
    ELSE IF sp # None THEN "compile_from_files"
    ELSE "compile_from_git"

\* lines 61-63: which pipeline compile runs, "" when the assertion fails
compile_mode(sp, repo) ==
    IF ~(repo # None \/ sp # None) THEN ""
    ELSE IF repo # None THEN "compile_from_git"
    ELSE "compile_from_files"

\* MissionFilesCompiler.compile(source_path, repository, use_link)
Compile(sp, repo, link) ==
    /\ pc = "idle"
    /\ args' = [source_path |-> sp, repository |-> repo, use_link |-> link]
    /\ Step("compile")
    /\ IF compile_mode(sp, repo) = ""
       THEN /\ result' = Raise("AssertionError")
            /\ pc' = "done"
            /\ UNCHANGED source_path
       ELSE IF compile_mode(sp, repo) = "compile_from_git"
       THEN /\ pc' = "compile_from_git"
            /\ UNCHANGED <<result, source_path>>
       ELSE /\ pc' = "download_base_repositories"
            /\ source_path' = sp[1]
            /\ UNCHANGED result
    /\ UNCHANGED <<local, remote, wd, wd0, tmp, git_source_path, repository,
                   base_repositories, position, active_envs, log>>

\* compile_from_git, lines 113-117: mkdtemp, git_pull, then compile_from_files
CompileFromGit ==
    /\ pc = "compile_from_git"
    /\ Len(tmp) < MaxTmp
    /\ LET o == git_pull(args.repository[1])
       IN  /\ tmp' = Append(tmp, o.tree)
           /\ git_source_path' = Some(Len(tmp) + 1)
           /\ IF o.error # ""
              THEN /\ result' = Raise(o.error)
                   /\ pc' = "finally"
                   /\ UNCHANGED source_path
              ELSE /\ source_path' = TmpPath(Len(tmp) + 1)
                   /\ pc' = "download_base_repositories"
                   /\ UNCHANGED result
    /\ Step("git_pull")
    /\ UNCHANGED <<local, remote, wd, wd0, args, repository, base_repositories,
                   position, active_envs, log>>

\* download_base_repositories, lines 103-104
DownloadStart ==
    /\ pc = "download_base_repositories"
    /\ LET r == get_base_repository(Lookup(source_path))
       IN  IF r.raised # ""
           THEN /\ Fail(r.raised)
                /\ UNCHANGED repository
           ELSE /\ repository' = r.value
                /\ pc' = "download_loop"
                /\ UNCHANGED result
    /\ base_repositories' = <<>>
    /\ Step("get_base_repository")
    /\ UNCHANGED <<local, remote, wd, wd0, tmp, args, source_path, git_source_path,
                   position, active_envs, log>>

\* the chain followed for one level only
base_of_leaf_only(src) == Return(None)

\* line 109: the repository the next turn of the loop fetches
next_repository(src) == get_base_repository(src)

\* download_base_repositories, lines 105-109: one turn of the loop
DownloadFetch ==
    /\ pc = "download_loop"
    /\ repository # None
    /\ Len(tmp) < MaxTmp
    /\ LET o == git_pull(repository[1])
           r == next_repository(o.tree)
       IN  /\ tmp' = Append(tmp, o.tree)
           /\ IF o.error # ""
              THEN /\ Fail(o.error)
                   /\ UNCHANGED <<repository, base_repositories>>
              ELSE /\ base_repositories' = Append(base_repositories, Len(tmp) + 1)
                   /\ IF r.raised # ""
                      THEN /\ Fail(r.raised)
                           /\ UNCHANGED repository
                      ELSE /\ repository' = r.value
                           /\ UNCHANGED <<pc, result>>
    /\ Step("fetch")
    /\ UNCHANGED <<local, remote, wd, wd0, args, source_path, git_source_path,
                   position, active_envs, log>>

\* the list left in the order of discovery
not_reversed(repositories) == repositories

\* line 89: the order the snapshots are applied in
reverse(repositories) == Reverse(repositories)

\* where compile_from_files' loop over the snapshots goes next
LoopPc(repositories, i) ==
    IF i <= Len(repositories) THEN "recursive_overwrite" ELSE "user_files"

\* lines 110 and 88-90: the list is returned, reversed, and the loop entered
DownloadReturn ==
    /\ pc = "download_loop"
    /\ repository = None
    /\ base_repositories' = reverse(base_repositories)
    /\ position' = 1
    /\ pc' = LoopPc(base_repositories, 1)
    /\ Step("reverse")
    /\ UNCHANGED <<local, remote, wd, wd0, tmp, args, source_path, git_source_path,
                   repository, active_envs, log, result>>

\* line 91: recursive_overwrite(repository_path, self.working_path)
OverlayAncestor ==
    /\ pc = "recursive_overwrite"
    /\ \E o \in recursive_overwrite(tmp[base_repositories[position]], wd) :
        /\ wd' = o.tree
        /\ IF o.error # ""
           THEN Fail(o.error)
           ELSE /\ pc' = "rmtree"
                /\ UNCHANGED result
    /\ Step("recursive_overwrite")
    /\ UNCHANGED <<local, remote, wd0, tmp, args, source_path, git_source_path,
                   repository, base_repositories, position, active_envs, log>>

\* the snapshot left where it is
rmtree_skipped(directories, n) == directories

\* shutil.rmtree of the temporary directory n
rmtree(directories, n) == [directories EXCEPT ![n] = Absent]

\* line 92: shutil.rmtree(repository_path)
RemoveAncestor ==
    /\ pc = "rmtree"
    /\ tmp' = rmtree(tmp, base_repositories[position])
    /\ position' = position + 1
    /\ pc' = LoopPc(base_repositories, position + 1)
    /\ Step("rmtree")
    /\ UNCHANGED <<local, remote, wd, wd0, args, source_path, git_source_path,
                   repository, base_repositories, active_envs, log, result>>

\* lines 95-96: copy_user_files
CopyUserFiles ==
    /\ pc = "user_files"
    /\ ~files_use_link
    /\ \E o \in recursive_overwrite(Lookup(source_path), wd) :
        /\ wd' = o.tree
        /\ IF o.error # ""
           THEN Fail(o.error)
           ELSE /\ pc' = "get_active_envs"
                /\ UNCHANGED result
    /\ Step("copy_user_files")
    /\ UNCHANGED <<local, remote, wd0, tmp, args, source_path, git_source_path,
                   repository, base_repositories, position, active_envs, log>>

\* lines 93-94: relink_user_files
RelinkUserFiles ==
    /\ pc = "user_files"
    /\ files_use_link
    /\ \E o \in relink_tree(source_path, Lookup(source_path), dst_path, wd) :
        /\ wd' = o.tree
        /\ log' = log \cup o.warned
        /\ IF o.error # ""
           THEN Fail(o.error)
           ELSE /\ pc' = "get_active_envs"
                /\ UNCHANGED result
    /\ Step("relink_user_files")
    /\ UNCHANGED <<local, remote, wd0, tmp, args, source_path, git_source_path,
                   repository, base_repositories, position, active_envs>>

\* line 97
GetActiveEnvs ==
    /\ pc = "get_active_envs"
    /\ \E r \in get_active_envs(wd) :
        IF r.raised # ""
        THEN /\ Fail(r.raised)
             /\ UNCHANGED active_envs
        ELSE /\ active_envs' = r.value
             /\ pc' = "filter_envs"
             /\ UNCHANGED result
    /\ Step("get_active_envs")
    /\ UNCHANGED <<local, remote, wd, wd0, tmp, args, source_path, git_source_path,
                   repository, base_repositories, position, log>>

\* line 98
FilterEnvs ==
    /\ pc = "filter_envs"
    /\ \E o \in filter_envs(wd, active_envs) :
        /\ wd' = o.tree
        /\ IF o.error # ""
           THEN Fail(o.error)
           ELSE /\ pc' = "make_dockerfile"
                /\ UNCHANGED result
    /\ Step("filter_envs")
    /\ UNCHANGED <<local, remote, wd0, tmp, args, source_path, git_source_path,
                   repository, base_repositories, position, active_envs, log>>

\* lines 99-100, and the end of compile_from_files: the Dockerfile is written
\* through a symbolic link when the entry is one
MakeDockerfile ==
    /\ pc = "make_dockerfile"
    /\ LET e == make_dockerfile_error(wd, active_envs)
           at == Walk(wd, DockerfilePath)
           text == File(docker_main(wd, active_envs))
       IN  IF e # ""
           THEN /\ Fail(e)
                /\ UNCHANGED <<wd, local, tmp>>
           ELSE /\ pc' = IF in_git_mode THEN "finally" ELSE "return"
                /\ UNCHANGED result
                /\ IF at.kind = "link" /\ Head(at.target) = "mission"
                   THEN /\ local' = SetAt(local, Tail(at.target), text)
                        /\ UNCHANGED <<wd, tmp>>
                   ELSE IF at.kind = "link"
                   THEN /\ tmp' = [n \in DOMAIN tmp |->
                                     IF ToString(n) = at.target[2]
                                     THEN SetAt(tmp[n], SubSeq(at.target, 3, Len(at.target)), text)
                                     ELSE tmp[n]]
                        /\ UNCHANGED <<wd, local>>
                   ELSE /\ wd' = SetAt(wd, DockerfilePath, text)
                        /\ UNCHANGED <<local, tmp>>
    /\ Step("make_dockerfile")
    /\ UNCHANGED <<remote, wd0, args, source_path, git_source_path, repository,
                   base_repositories, position, active_envs, log>>

\* the cleanup done on the success path alone
removes_on_success(res) == git_source_path # None /\ res.raised = ""

\* lines 119-120: is the temporary leaf directory removed when the call
\* ends, whose outcome so far is res
finally_removes(res) == git_source_path # None

\* compile_from_git, lines 118-120
Finally ==
    /\ pc = "finally"
    /\ tmp' = IF finally_removes(result)
              THEN [tmp EXCEPT ![git_source_path[1]] = Absent]
              ELSE tmp
    /\ pc' = IF result.raised # "" THEN "done" ELSE "return"
    /\ Step("finally")
    /\ UNCHANGED <<local, remote, wd, wd0, args, source_path, git_source_path,
                   repository, base_repositories, position, active_envs, log, result>>

\* line 67: what compile returns
compile_return == dst_path

CompileReturn ==
    /\ pc = "return"
    /\ result' = Return(compile_return)
    /\ pc' = "done"
    /\ Step("return")
    /\ UNCHANGED <<local, remote, wd, wd0, tmp, args, source_path, git_source_path,
                   repository, base_repositories, position, active_envs, log>>

Next ==
    \/ \E sp \in SourcePaths, repo \in Repositories, link \in BOOLEAN : Compile(sp, repo, link)
    \/ CompileFromGit
    \/ DownloadStart
    \/ DownloadFetch
    \/ DownloadReturn
    \/ OverlayAncestor
    \/ RemoveAncestor
    \/ CopyUserFiles
    \/ RelinkUserFiles
    \/ GetActiveEnvs
    \/ FilterEnvs
    \/ MakeDockerfile
    \/ Finally
    \/ CompileReturn

Spec == Init /\ [][Next]_vars

-----------------------------------------------------------------------------
(* The schema parser on its own: every schema file up to MaxLen characters *)

InitParse ==
    /\ local \in {EmptyDir} \cup {Dir(SCHEMA_FILENAME :> File(c)) : c \in Strings(MaxLen)}
    /\ remote = [u \in {} |-> Repo(EmptyDir, NoBranches)]
    /\ wd = EmptyDir
    /\ wd0 = EmptyDir
    /\ pc = "parse"
    /\ tmp = <<>>
    /\ args = NoArgs
    /\ source_path = LocalPath
    /\ git_source_path = None
    /\ repository = None
    /\ base_repositories = <<>>
    /\ position = 0
    /\ active_envs = <<>>
    /\ log = {}
    /\ steps = <<>>
    /\ result = Return(None)

\* get_base_repository(source_path)
ParseSchema ==
    /\ pc = "parse"
    /\ result' = get_base_repository(Lookup(source_path))
    /\ pc' = "parsed"
    /\ UNCHANGED <<local, remote, wd, wd0, tmp, args, source_path, git_source_path,
                   repository, base_repositories, position, active_envs, log, steps>>

NextParse == ParseSchema

SpecParse == InitParse /\ [][NextParse]_vars

-----------------------------------------------------------------------------
(* What the world makes of a chain, for stating the properties *)

\* the leaf source of the call: the local directory, or the repository asked for
LeafSource ==
    IF ~in_git_mode THEN local
    ELSE IF Reachable(args.repository[1]) /\ HasBranch(args.repository[1])
    THEN Snapshot(args.repository[1])
    ELSE Absent

\* a pipeline was started on a leaf that could be read
LeafRead == compile_mode(args.source_path, args.repository) # "" /\ LeafSource # Absent

\* the ancestors of the source src, nearest first, as far as they resolve
RECURSIVE Ancestors(_, _)
Ancestors(src, fuel) ==
    LET r == get_base_repository(src)
    IN  IF fuel = 0 \/ r.raised # "" \/ r.value = None THEN <<>>
        ELSE IF ~(Reachable(r.value[1]) /\ HasBranch(r.value[1])) THEN <<>>
        ELSE <<Snapshot(r.value[1])>> \o Ancestors(Snapshot(r.value[1]), fuel - 1)

\* does following the schema records from src meet a malformed schema or a
\* repository that cannot be fetched
RECURSIVE Broken(_, _)
Broken(src, fuel) ==
    LET r == get_base_repository(src)
    IN  IF r.raised # "" THEN TRUE
        ELSE IF fuel = 0 \/ r.value = None THEN FALSE
        ELSE IF ~(Reachable(r.value[1]) /\ HasBranch(r.value[1])) THEN TRUE
        ELSE Broken(Snapshot(r.value[1]), fuel - 1)

\* the paths of the plain files below the directory d
RECURSIVE FilePaths(_)
FilePaths(d) ==
    UNION {IF d.entries[n].kind = "dir"
           THEN {<<n>> \o p : p \in FilePaths(d.entries[n])}
           ELSE {<<n>>}
           : n \in Names(d)}

Defines(layer, p) == Walk(layer, p).kind = "file"

\* the layers in the order [most distant ancestor, ..., nearest ancestor, leaf]
Layers == Reverse(Ancestors(LeafSource, MaxTmp)) \o <<LeafSource>>

\* the last layer that defines the file p
Latest(p) ==
    Layers[CHOOSE i \in 1..Len(Layers) :
              /\ Defines(Layers[i], p)
              /\ \A j \in (i + 1)..Len(Layers) : ~Defines(Layers[j], p)]

AllTmpGone == \A n \in DOMAIN tmp : tmp[n] = Absent

-----------------------------------------------------------------------------
(* The claims *)

\* C1: after compile_from_files has applied the ancestors and the leaf by
\* copy overlay, every file that some layer defines holds the content of the
\* latest layer defining it, in the order most distant ancestor .. leaf.
C1_LatestLayerWins ==
    (pc = "get_active_envs" /\ ~files_use_link) =>
        \A i \in 1..Len(Layers) : \A p \in FilePaths(Layers[i]) :
            Walk(wd, p) = File(Walk(Latest(p), p).content)

\* two ancestors were merged and a file that both define, and the leaf does
\* not, holds the nearest ancestor's content
C1_Witness ==
    /\ pc = "get_active_envs"
    /\ ~files_use_link
    /\ Len(base_repositories) = 2
    /\ \E p \in FilePaths(Layers[1]) :
        /\ Defines(Layers[2], p)
        /\ ~Defines(LeafSource, p)
        /\ Walk(Layers[1], p) # Walk(Layers[2], p)
        /\ Walk(wd, p) = Walk(Layers[2], p)

\* C2: when a compilation has ended, by return or by exception, none of the
\* temporary directories it created exists any more.
C2_NoSnapshotLeft == pc = "done" => AllTmpGone

\* C3: when chain resolution fails (a fetch fails, or a schema of the chain is
\* malformed), the compilation ends with an exception and the working
\* directory is as it was when compile was called.
C3_NoPartialChain ==
    (pc = "done" /\ LeafRead /\ Broken(LeafSource, MaxTmp)) =>
        /\ result.raised # ""
        /\ wd = wd0

\* the nearest ancestor was fetched, the fetch of the next one failed, and a
\* working directory that was not empty is untouched
C3_Witness ==
    /\ pc = "done"
    /\ LeafRead
    /\ Broken(LeafSource, MaxTmp)
    /\ Len(tmp) >= 2
    /\ result.raised = "Exception: GitCommandError"
    /\ wd = wd0
    /\ wd0 # EmptyDir

\* C4: when a call in repository mode has ended, the temporary leaf
\* directory made for the fetch does not exist.
C4_LeafRemoved ==
    (pc = "done" /\ in_git_mode) =>
        /\ git_source_path # None
        /\ tmp[git_source_path[1]] = Absent

\* a repository-mode call whose leaf was fetched and whose descriptor step
\* failed has removed the leaf directory
C4_Witness ==
    /\ pc = "done"
    /\ in_git_mode
    /\ result.raised = "IOError"
    /\ tmp[git_source_path[1]] = Absent

\* is the text f a part of the text t
IsInfix(f, t) == \E i \in 0..(Len(t) - Len(f)) : SubSeq(t, i + 1, i + Len(f)) = f

\* the merged verification/envs directory and the names it lacks
Envs == Walk(wd, <<DIR_VERIFICATION, DIR_VERIFICATION_ENVS>>)

MissingEnvs == {e \in Range(active_envs) : ~Has(Envs, e)}

Dockerfile == _get_file_content(wd, DockerfilePath)

\* the fragment of environment e as the working directory holds it
FragmentOf(e) == replace(_get_file_content(wd, DockerEnvFile(e)), ENV, <<e>>)

\* C5, as the specification states it: an active environment without an envs
\* subdirectory is passed over and the compilation completes, the Dockerfile
\* holding the fragments of the other active environments.
C5_MissingEnvCompletes ==
    (pc = "done" /\ "make_dockerfile" \in Range(steps) /\ MissingEnvs # {}) =>
        /\ result.raised = ""
        /\ \A e \in Range(active_envs) \ MissingEnvs : IsInfix(FragmentOf(e), Dockerfile)

\* C5, amended: for an active environment without an envs subdirectory
\* filter_envs is a no-op (it creates nothing for the name and removes only
\* subdirectories that no active environment names), but make_dockerfile then
\* fails with IOError on the missing Dockerenv before it writes anything: the
\* compilation does not complete and no Dockerfile is generated.
C5_MissingEnvFails ==
    [][/\ (pc = "filter_envs" /\ MissingEnvs # {}) =>
            /\ MissingEnvs' = MissingEnvs
            /\ Names(Envs') \subseteq Names(Envs)
            /\ Names(Envs) \cap Range(active_envs) \subseteq Names(Envs')
       /\ (pc = "make_dockerfile" /\ MissingEnvs # {}) =>
            /\ pc' \in {"done", "finally"}
            /\ result'.raised = "IOError"
            /\ wd' = wd
            /\ local' = local]_vars

\* the compilation has ended in make_dockerfile's IOError with one active
\* environment lacking its subdirectory and another having it
C5_Witness ==
    /\ pc = "done"
    /\ "make_dockerfile" \in Range(steps)
    /\ MissingEnvs # {}
    /\ Range(active_envs) \ MissingEnvs # {}
    /\ result.raised = "IOError"

\* C6: a call of MissionFilesCompiler.compile that succeeds returns the path
\* of the merged verification/ directory.
C6_ReturnsVerification ==
    (pc = "done" /\ result.raised = "") => result.value = path_verification

BothGiven == args.source_path # None /\ args.repository # None

NeitherGiven == args.source_path = None /\ args.repository = None

\* C7, as the specification states it: a call that gives both a source
\* directory and a repository, or neither, is rejected and runs no pipeline.
C7_ExactlyOneAccepted ==
    (pc = "done" /\ (BothGiven \/ NeitherGiven)) =>
        /\ result.raised # ""
        /\ steps = <<"compile">>

\* C7, amended: a call that gives neither is rejected by the assertion and
\* runs no pipeline; a call that gives a repository runs the repository
\* pipeline alone, whether or not a source directory is given with it (the
\* directory and the link flag are ignored); a call that gives only a source
\* directory runs the files pipeline alone.
C7_RepositoryTakesPrecedence ==
    (pc \notin {"idle", "parse", "parsed"}) =>
        /\ NeitherGiven =>
            /\ pc = "done"
            /\ result = Raise("AssertionError")
            /\ steps = <<"compile">>
            /\ wd = wd0
            /\ tmp = <<>>
        /\ args.repository # None =>
            /\ source_path # LocalPath
            /\ "relink_user_files" \notin Range(steps)
            /\ Len(steps) >= 2 => steps[2] = "git_pull"
        /\ (args.repository = None /\ args.source_path # None) =>
            /\ source_path = LocalPath
            /\ git_source_path = None
            /\ "git_pull" \notin Range(steps)
            /\ "finally" \notin Range(steps)

\* a call given both a source directory and a repository has run the
\* repository pipeline and returned
C7_Witness ==
    /\ pc = "done"
    /\ BothGiven
    /\ result.raised = ""
    /\ steps[2] = "git_pull"
    /\ git_source_path # None

-----------------------------------------------------------------------------
(* The claims about the schema parser, under SpecParse *)

HasSchema == Has(local, SCHEMA_FILENAME)

SchemaText == local.entries[SCHEMA_FILENAME].content

\* the first line without its line terminator
FirstLine ==
    IF Contains(SchemaText, "\n")
    THEN SubSeq(SchemaText, 1, IndexOf(SchemaText, "\n") - 1)
    ELSE SchemaText

\* the part X of the line 'p;X'
AfterSeparator == SubSeq(FirstLine, IndexOf(FirstLine, ";") + 1, Len(FirstLine))

BeforeAt == SubSeq(AfterSeparator, 1, IndexOf(AfterSeparator, "@") - 1)

AfterAt ==
    SubSeq(AfterSeparator, IndexOf(AfterSeparator, "@") + 1, Len(AfterSeparator))

IsRef == Contains(AfterSeparator, "@") /\ ~Contains(AfterAt, ":")

\* C8: without a schema file get_base_repository returns None; with a schema
\* file that is empty, or whose first line has no ';', it raises
\* MissionFilesException and returns no record.
C8_MissingOrMalformed ==
    pc = "parsed" =>
        /\ ~HasSchema => result = Return(None)
        /\ (HasSchema /\ (SchemaText = <<>> \/ ~Contains(FirstLine, ";"))) =>
            /\ result.raised \in {"MissionFilesException: Schema file is empty",
                                  "MissionFilesException: Schema content is wrong"}
            /\ result.value = None

\* a schema file whose first line has no ';' and whose second line has one
\* is rejected
C8_Witness ==
    /\ pc = "parsed"
    /\ HasSchema
    /\ ~Contains(FirstLine, ";")
    /\ Contains(SchemaText, ";")
    /\ result.raised = "MissionFilesException: Schema content is wrong"

\* C9, as the specification states it: the url and the ref are the portions
\* of X before and after its first '@' when the latter has no ':', and else
\* the url is X and there is no ref.
C9_SplitVerbatim ==
    (pc = "parsed" /\ HasSchema /\ Contains(FirstLine, ";")) =>
        result = Return(Some(IF IsRef
                             THEN [url |-> BeforeAt, branch |-> Some(AfterAt)]
                             ELSE [url |-> AfterSeparator, branch |-> None]))

\* C9, amended: the same, with the surrounding whitespace stripped from X
\* and from each of the two portions.
C9_SplitStripped ==
    (pc = "parsed" /\ HasSchema /\ Contains(FirstLine, ";")) =>
        result = Return(Some(IF IsRef
                             THEN [url |-> strip(BeforeAt), branch |-> Some(strip(AfterAt))]
                             ELSE [url |-> strip(AfterSeparator), branch |-> None]))

\* a line 'p;X' whose X holds an '@' followed by a ':' was parsed to the
\* whole of X, stripped of the blank before it, and no ref
C9_Witness ==
    /\ pc = "parsed"
    /\ HasSchema
    /\ Contains(FirstLine, ";")
    /\ Contains(AfterSeparator, "@")
    /\ Contains(AfterAt, ":")
    /\ strip(AfterSeparator) # AfterSeparator
    /\ result = Return(Some([url |-> strip(AfterSeparator), branch |-> None]))

-----------------------------------------------------------------------------
(* The claim about the environments that remain *)

\* every tree the world holds
WorldTrees ==
    {local, wd0} \cup {remote[u].head : u \in DOMAIN remote}
    \cup UNION {{remote[u].branches[b] : b \in DOMAIN remote[u].branches} : u \in DOMAIN remote}

\* the fragments environment e has anywhere, with its name filled in
Fragments(e) ==
    {replace(Walk(t, DockerEnvFile(e)).content, ENV, <<e>>) :
        t \in {x \in WorldTrees : Defines(x, DockerEnvFile(e))}}

InitialNames == Names(Walk(wd, <<DIR_INITIAL_CODES>>))

\* C10: after a successful compilation every subdirectory of
\* verification/envs/ is named by an entry of initial/, the Dockerfile holds
\* the fragment of every active environment, and it holds no fragment of an
\* environment that initial/ does not name.
C10_OnlyActiveEnvs ==
    (pc = "done" /\ result.raised = "") =>
        /\ Names(Envs) \subseteq InitialNames
        /\ \A e \in InitialNames : IsInfix(FragmentOf(e), Dockerfile)
        /\ \A e \in EnvNames \ InitialNames : \A f \in Fragments(e) : ~IsInfix(f, Dockerfile)

\* initial/ names py3 alone, a layer brought envs/js, and envs/js is gone
C10_Witness ==
    /\ pc = "done"
    /\ result.raised = ""
    /\ InitialNames = {"py3"}
    /\ Names(Envs) = {"py3"}
    /\ \E i \in 1..Len(Layers) : Defines(Layers[i], DockerEnvFile("js"))
    /\ IsInfix(<<"RUN", "L", "py3">>, Dockerfile)

-----------------------------------------------------------------------------
(* filter_envs run twice in a row, on every envs directory over FilterNames
   and every list of active environments over them *)

FilterNames == {"py3", "js", "go"}

\* the entries envs/ may hold under a name: an environment, or a plain file
FilterEntries == {Dir(DOCKER_ENV_FILENAME :> Fragment("L")), File(<<"notes">>)}

FilterDirs ==
    {EmptyDir}
    \cup {Dir(DIR_VERIFICATION :> Dir(DIR_VERIFICATION_ENVS :> Dir(entries))) :
            entries \in UNION {[S -> FilterEntries] : S \in SUBSET FilterNames}}

InitFilter ==
    /\ wd \in FilterDirs
    /\ wd0 = wd
    /\ active_envs \in UNION {Listings(S) : S \in SUBSET FilterNames}
    /\ local = EmptyDir
    /\ remote = [u \in {} |-> Repo(EmptyDir, NoBranches)]
    /\ pc = "filter_envs"
    /\ tmp = <<>>
    /\ args = NoArgs
    /\ source_path = LocalPath
    /\ git_source_path = None
    /\ repository = None
    /\ base_repositories = <<>>
    /\ position = 0
    /\ log = {}
    /\ steps = <<>>
    /\ result = Return(None)

\* filter_envs(active_envs) called again once the first call has returned
FilterAgain ==
    /\ pc = "make_dockerfile"
    /\ \E o \in filter_envs(wd, active_envs) :
        /\ wd' = o.tree
        /\ result' = IF o.error # "" THEN Raise(o.error) ELSE result
    /\ pc' = "done"
    /\ Step("filter_envs")
    /\ UNCHANGED <<local, remote, wd0, tmp, args, source_path, git_source_path,
                   repository, base_repositories, position, active_envs, log>>

NextFilter == FilterEnvs \/ FilterAgain

SpecFilter == InitFilter /\ [][NextFilter]_vars

\* C12: filter_envs is idempotent: called a second time with the same active
\* environments, right after a first call that returned, it deletes nothing
\* and fails on nothing, so envs/ is as the first call left it.
C12_FilterIdempotent ==
    [][pc = "make_dockerfile" => (wd' = wd /\ result'.raised = "")]_vars

\* the first call removed an environment, kept another, and the second ran
C12_Witness ==
    /\ pc = "done"
    /\ steps = <<"filter_envs", "filter_envs">>
    /\ result.raised = ""
    /\ Names(Walk(wd0, <<DIR_VERIFICATION, DIR_VERIFICATION_ENVS>>)) \ Names(Envs) # {}
    /\ Names(Envs) # {}

-----------------------------------------------------------------------------
(* The claim about the text of the Dockerfile *)

RootTemplate == _get_file_content(wd, <<DIR_VERIFICATION, DOCKER_MAIN_FILENAME>>)

\* the Dockerenv of environment e with each {{env}} turned into e
Rendered(e) ==
    LET c == _get_file_content(wd, DockerEnvFile(e))
    IN  [i \in 1..Len(c) |-> IF c[i] = ENV THEN e ELSE c[i]]

\* the fragments of the first k active environments, a newline between two
RECURSIVE Instructions(_)
Instructions(k) ==
    IF k = 0 THEN <<>>
    ELSE IF k = 1 THEN Rendered(active_envs[1])
    ELSE Instructions(k - 1) \o <<"\n">> \o Rendered(active_envs[k])

\* the first k tokens of the template, the instructions in each placeholder
RECURSIVE Expanded(_)
Expanded(k) ==
    IF k = 0 THEN <<>>
    ELSE Expanded(k - 1)
         \o (IF RootTemplate[k] = ENV_INSTRUCTIONS
             THEN Instructions(Len(active_envs))
             ELSE <<RootTemplate[k]>>)

Occurrences(t, x) == Cardinality({i \in 1..Len(t) : t[i] = x})

\* C11: when make_dockerfile writes, verification/Dockerfile reads as the root
\* template with every {{env_instructions}} replaced by the fragments of the
\* active environments, in the list's order and joined by one newline, each
\* fragment its Dockerenv with every {{env}} replaced by the environment's
\* name; whatever the Dockerfile held before is gone.
C11_DockerfileText ==
    [][(pc = "make_dockerfile" /\ result'.raised = "") =>
            Dockerfile' = Expanded(Len(RootTemplate))]_vars

\* two active environments, a template that holds the placeholder twice, a
\* Dockerfile that a layer brought, and the new text in its place
C11_Witness ==
    /\ pc = "done"
    /\ result.raised = ""
    /\ Len(active_envs) = 2
    /\ Occurrences(RootTemplate, ENV_INSTRUCTIONS) = 2
    /\ \E i \in 1..Len(Layers) : Defines(Layers[i], DockerfilePath)
    /\ Occurrences(Dockerfile, "\n") = 2
    /\ Occurrences(Dockerfile, "stale") = 0
    /\ Dockerfile = Expanded(Len(RootTemplate))

-----------------------------------------------------------------------------
(* The claim about a plain file that the link overlay replaces *)

\* the paths of the source's files that relink_tree comes to
LinkedPaths ==
    {p \in FilePaths(local) : \A i \in 1..Len(p) : p[i] \notin {".git", ".gitignore"}}

\* the files of the source whose name the working directory holds as a plain file
Clashes == {p \in LinkedPaths : isfile(Walk(wd, p))}

Parent(p) == SubSeq(p, 1, Len(p) - 1)

\* the names the .folder of the directory d lists under 'replace'
Listed(d) ==
    LET c == Entry(d, ".folder").content
    IN  IF Has(d, ".folder") /\ c # <<>> /\ c[1] = "replace"
        THEN {c[i] : i \in 2..Len(c)}
        ELSE {}

\* C13: when the link overlay does not stop on a file/directory mismatch,
\* every file of the source whose name the destination held as a plain file
\* ends as a symbolic link to the source file, and a warning was logged for it
\* exactly when its name is not '.folder' and the .folder of its destination
\* directory does not list it under 'replace'.
C13_PlainFileReplaced ==
    [][(pc = "user_files" /\ files_use_link /\ result'.raised # "AssertionError") =>
            \A p \in Clashes :
                /\ Walk(wd', p) = Link(source_path \o p)
                /\ (dst_path \o p \in log') <=>
                        (p[Len(p)] # ".folder" /\ p[Len(p)] \notin Listed(Walk(wd, Parent(p))))]_vars

-----------------------------------------------------------------------------
(* The claim about when the ancestors' snapshots are deleted *)

\* how many ancestors were merged and then removed
Removed == Occurrences(steps, "rmtree")

LeafOverlayStarted ==
    \/ pc = "user_files"
    \/ "copy_user_files" \in Range(steps)
    \/ "relink_user_files" \in Range(steps)

\* C14: once the chain is resolved, the snapshots of the ancestors merged and
\* removed so far are gone, in the order of the merges; no merge starts while
\* the snapshot merged before it still waits for its removal; and when the
\* leaf's overlay starts no ancestor's snapshot exists.
C14_RemovedAfterOwnMerge ==
    "reverse" \in Range(steps) =>
        /\ Removed <= Len(base_repositories)
        /\ \A j \in 1..Len(base_repositories) :
                j <= Removed => tmp[base_repositories[j]] = Absent
        /\ Occurrences(steps, "recursive_overwrite") - Removed \in {0, 1}
        /\ pc = "recursive_overwrite" => Occurrences(steps, "recursive_overwrite") = Removed
        /\ LeafOverlayStarted =>
                \A j \in 1..Len(base_repositories) : tmp[base_repositories[j]] = Absent

\* two ancestors: the first is merged and gone, the second is about to be
\* merged and is still there
C14_Witness ==
    /\ pc = "recursive_overwrite"
    /\ Len(base_repositories) = 2
    /\ Removed = 1
    /\ tmp[base_repositories[1]] = Absent
    /\ tmp[base_repositories[2]] # Absent

-----------------------------------------------------------------------------
(* The claim about when the chain resolution returns *)

\* where following the schema records from the source src leads: to a source
\* with no schema file ("ends"), to a record that cannot be followed
\* ("broken"), or back to a source already met ("cycle")
RECURSIVE ChainFrom(_, _)
ChainFrom(src, seen) ==
    LET r == get_base_repository(src)
    IN  IF ~Has(src, SCHEMA_FILENAME) THEN "ends"
        ELSE IF r.raised # "" THEN "broken"
        ELSE IF ~(Reachable(r.value[1]) /\ HasBranch(r.value[1])) THEN "broken"
        ELSE IF Snapshot(r.value[1]) \in seen \cup {src} THEN "cycle"
        ELSE ChainFrom(Snapshot(r.value[1]), seen \cup {src})

Chain == ChainFrom(LeafSource, {})

Resolving == pc \in {"download_base_repositories", "download_loop"}

Resolved == "reverse" \in Range(steps)

\* the snapshots the resolution returned, in the order it fetched them
Returned == [i \in 1..Len(base_repositories) |->
                tmp[base_repositories[Len(base_repositories) + 1 - i]]]

Fetches == Occurrences(steps, "fetch")

\* C15: the chain resolution returns if and only if following the schema
\* records from the leaf reaches a source with no schema file: on such a
\* chain the loop ends exactly when it has fetched every ancestor, and it
\* returns one snapshot per fetched ancestor, in the order of the fetches; on
\* a cycle of schema records it never leaves its loop, after every fetch
\* there is a next repository to fetch; and it returns on no other chain.
C15_ResolutionTerminates ==
    /\ Resolved => Chain = "ends"
    /\ (pc = "download_loop" /\ Chain = "ends") =>
            /\ Fetches <= Len(Ancestors(LeafSource, MaxTmp))
            /\ repository = None <=> Fetches = Len(Ancestors(LeafSource, MaxTmp))
    /\ (Resolved /\ pc \in {"recursive_overwrite", "user_files"} /\ position = 1) =>
            /\ Len(base_repositories) = Fetches
            /\ Returned = Ancestors(LeafSource, MaxTmp)
            /\ \A i, j \in 1..Len(base_repositories) :
                    i < j => base_repositories[i] > base_repositories[j]
    /\ (LeafRead /\ Chain = "cycle") =>
            /\ pc \in {"compile_from_git", "download_base_repositories", "download_loop"}
            /\ result.raised = ""
            /\ pc = "download_loop" => repository # None

\* a chain of two ancestors was resolved and its two snapshots returned
C15_Witness ==
    /\ Resolved
    /\ pc = "recursive_overwrite"
    /\ position = 1
    /\ Chain = "ends"
    /\ Len(Ancestors(LeafSource, MaxTmp)) = 2
    /\ Returned = Ancestors(LeafSource, MaxTmp)

\* the schema records form a cycle and the loop has made MaxTmp fetches
C15_WitnessCycle ==
    /\ Chain = "cycle"
    /\ pc = "download_loop"
    /\ Len(tmp) = MaxTmp
    /\ repository # None

-----------------------------------------------------------------------------
(* The claim about a file where the source has a directory, or the reverse *)

\* the paths of all entries below the directory d
RECURSIVE TreePaths(_)
TreePaths(d) ==
    UNION {{<<n>>} \cup (IF d.entries[n].kind = "dir"
                         THEN {<<n>> \o p : p \in TreePaths(d.entries[n])}
                         ELSE {})
           : n \in Names(d)}

\* the entries of the source that the working directory holds as the other
\* kind: a plain file for a directory, a directory for a plain file
Mismatches ==
    {p \in TreePaths(local) :
        /\ \A i \in 1..Len(p) : p[i] \notin {".git", ".gitignore"}
        /\ Walk(wd, p).kind # "absent"
        /\ (Walk(wd, p).kind = "file") # (Walk(local, p).kind = "file")}

\* a clash that stops the overlay for another reason: the destination
\* directory's .folder is empty
NoneConfigClashes ==
    {p \in Clashes : p[Len(p)] # ".folder" /\ Entry(Walk(wd, Parent(p)), ".folder") = File(<<>>)}

\* C16: when the link overlay meets a destination entry that is a plain file
\* where the source has a directory, or a directory where the source has a
\* plain file, it stops with an exception, the AssertionError of that entry
\* unless it had already stopped on another one, and the mismatched entry is
\* neither removed nor linked: it is as it was.
C16_MismatchAborts ==
    [][(pc = "user_files" /\ files_use_link) =>
            \A p \in Mismatches :
                /\ result'.raised # ""
                /\ NoneConfigClashes = {} => result'.raised = "AssertionError"
                /\ pc' = "done"
                /\ Walk(wd', p) = Walk(wd, p)]_vars

\* the link overlay stopped on a plain file where the source has a directory
C16_Witness ==
    /\ pc = "done"
    /\ steps[Len(steps)] = "relink_user_files"
    /\ result.raised = "AssertionError"
    /\ \E p \in Mismatches : Walk(wd, p).kind = "file"

\* the link overlay stopped on a directory where the source has a plain file
C16_WitnessReverse ==
    /\ pc = "done"
    /\ steps[Len(steps)] = "relink_user_files"
    /\ result.raised = "AssertionError"
    /\ \E p \in Mismatches : Walk(wd, p).kind = "dir"

-----------------------------------------------------------------------------
(* The claim about a template that is not there *)

TemplateAbsent == ~exists(Walk(wd, <<DIR_VERIFICATION, DOCKER_MAIN_FILENAME>>))

DockerenvAbsent == \E e \in Range(active_envs) : ~exists(Walk(wd, DockerEnvFile(e)))

\* C17: when the root template or the Dockerenv of an active environment is
\* absent, make_dockerfile fails and has not opened its output: the entry
\* verification/Dockerfile is as it was, not there or with the text it had,
\* and no file is written through a symbolic link.
C17_NoOutputOnMissingTemplate ==
    [][(pc = "make_dockerfile" /\ (TemplateAbsent \/ DockerenvAbsent)) =>
            /\ result'.raised = "IOError"
            /\ Walk(wd', DockerfilePath) = Walk(wd, DockerfilePath)
            /\ local' = local
            /\ tmp' = tmp]_vars

\* make_dockerfile failed for want of the root template, every Dockerenv
\* being there, and the Dockerfile of an earlier compilation still reads as it did
C17_Witness ==
    /\ pc = "done"
    /\ steps[Len(steps)] = "make_dockerfile"
    /\ result.raised = "IOError"
    /\ TemplateAbsent
    /\ ~DockerenvAbsent
    /\ active_envs # <<>>
    /\ Dockerfile = <<"stale", "old">>

\* make_dockerfile failed for want of a Dockerenv, the template being there,
\* and the Dockerfile the leaf brought still reads as it did
C17_WitnessDockerenv ==
    /\ pc = "done"
    /\ steps[Len(steps)] = "make_dockerfile"
    /\ result.raised = "IOError"
    /\ ~TemplateAbsent
    /\ DockerenvAbsent
    /\ Dockerfile = <<"stale", "L">>

\* make_dockerfile failed for want of the template and there is no Dockerfile
C17_WitnessNotCreated ==
    /\ pc = "done"
    /\ steps[Len(steps)] = "make_dockerfile"
    /\ result.raised = "IOError"
    /\ TemplateAbsent
    /\ Walk(wd, DockerfilePath) = Absent

-----------------------------------------------------------------------------
(* The claim about what the symbolic links point to *)

\* the symbolic links the working directory holds
Links == {p \in FilePaths(wd) : Walk(wd, p).kind = "link"}

\* C18: the link overlay is applied to the caller's local leaf alone: in
\* repository mode the fetched leaf is copied whatever use_link says, and the
\* ancestors are merged by the copy overlay, one merge per removed snapshot;
\* so every symbolic link in the working directory points to a file of the
\* caller's mission directory, none into a temporary directory.
C18_LinksOnlyToLocalLeaf ==
    /\ "relink_user_files" \in Range(steps) =>
            (~in_git_mode /\ args.use_link /\ source_path = LocalPath)
    /\ in_git_mode => "relink_user_files" \notin Range(steps)
    /\ Occurrences(steps, "rmtree") <= Occurrences(steps, "recursive_overwrite")
    /\ \A p \in Links :
            /\ Walk(wd, p).target[1] = "mission"
            /\ Lookup(Walk(wd, p).target).kind = "file"

\* a repository compiled with use_link set: ancestors merged, the leaf
\* copied, its snapshot gone, and no link in the working directory
C18_Witness ==
    /\ pc = "done"
    /\ result.raised = ""
    /\ in_git_mode
    /\ args.use_link
    /\ base_repositories # <<>>
    /\ "copy_user_files" \in Range(steps)
    /\ AllTmpGone
    /\ FilePaths(wd) # {}
    /\ Links = {}

\* a local leaf linked over merged ancestors: links to the leaf, files of
\* the ancestors, every snapshot gone
C18_WitnessLinked ==
    /\ pc = "done"
    /\ result.raised = ""
    /\ base_repositories # <<>>
    /\ AllTmpGone
    /\ Links # {}
    /\ FilePaths(wd) \ Links # {}

====
